---- MODULE Spec2Model ----
(***************************************************************************)
(* ShapesCodeGen (src/tools/shapes_codegen.py): the schema-to-code        *)
(* pipeline of sagemaker-core.  build_graph derives the dependency graph   *)
(* of the shapes of a service model, topological_sort orders it by a       *)
(* post-order depth-first traversal, generate_shapes writes the header and *)
(* one class per eligible structure shape to the output file.              *)
(***************************************************************************)
EXTENDS Integers, Sequences, FiniteSets, TLC

\* ------------------------------------------------------------- bounds
\* Shape names the schemas draw their references from.
NumNames == 3
\* Members of a structure shape.
MaxMembers == 2
\* Shapes declared by a schema handed to generate_shapes (a schema handed to
\* topological_sort alone declares up to NumNames shapes).
MaxPipelineShapes == 2
\* Entries of the operations table.
MaxOps == 1
\* Calls made on one ShapesCodeGen object.
MaxRuns == 2

\* ------------------------------------------------------------- schemas
NamePool == <<"A", "B", "C", "D", "E", "F">>

NameOrder == SubSeq(NamePool, 1, NumNames)

Names == {NameOrder[i] : i \in 1..Len(NameOrder)}

Range(s) == {s[i] : i \in 1..Len(s)}

\* Every name a schema of the model may use.
PoolNames == Range(NamePool)

SeqsUpTo(S, n) == UNION {[1..k -> S] : k \in 0..n}

\* A reference to a shape, as in {"shape": "ExperimentEntityName"}.
ShapeRef == [shape : Names]

\* The definitions a shape named n may have: a scalar, a shape of a type the
\* schema language does not know ("tuple"), a list with its element, a map
\* with its key and value, a structure with or without a "members" mapping
\* (an ordered mapping, here the sequence of its values).
ShapeDefs(n) ==
    [name : {n}, type : {"string", "tuple"}]
        \cup [name : {n}, type : {"list"}, member : ShapeRef]
        \cup [name : {n}, type : {"map"}, key : ShapeRef, value : ShapeRef]
        \cup [name : {n}, type : {"structure"}]
        \cup [name : {n}, type : {"structure"}, members : SeqsUpTo(ShapeRef, MaxMembers)]

\* The "shapes" mappings that declare the first k names, in that order.
RECURSIVE ShapeMaps(_)
ShapeMaps(k) ==
    IF k = 0
    THEN {<<>>}
    ELSE {Append(s, d) : s \in ShapeMaps(k - 1), d \in ShapeDefs(NameOrder[k])}

\* An entry of the "operations" table: "input" and "output" are optional.
OperationDefs ==
    [name : {"Op"}]
        \cup [name : {"Op"}, input : ShapeRef]
        \cup [name : {"Op"}, output : ShapeRef]
        \cup [name : {"Op"}, input : ShapeRef, output : ShapeRef]

OperationTables == SeqsUpTo(OperationDefs, MaxOps)

\* ------------------------------------------------------------- state
VARIABLES
    service_json,       \* self.service_json: [shapes, operations]
    caller,             \* the method called on the object
    pc,                 \* position of the call
    run,                \* number of the call on this object
    file,               \* content of the output file, a sequence of writes
    graph,              \* build_graph: graph, a sequence of [key, val] in insertion order
    bnode,              \* build_graph: position of `for node, attributes`
    bmem,               \* build_graph: position of `for member, member_attributes`
    visited,            \* topological_sort: visited
    stack,              \* topological_sort: stack
    frames,             \* topological_sort: the activations of dfs, [node, i]
    seed,               \* topological_sort: position of `for node in graph`
    entered,            \* number of activations of dfs per name in this call
    topological_order,  \* generate_shapes: topological_order
    eidx,               \* generate_shapes: position of `for shape in topological_order`
    prev,               \* what the previous call on this object left
    text,               \* add_indent: text, a sequence of characters
    num_spaces,         \* add_indent: num_spaces
    lines,              \* add_indent: lines
    indented_text       \* add_indent: indented_text, and what it returns

\* The variables of a call of add_indent.
indent_vars == <<text, num_spaces, lines, indented_text>>

vars == <<service_json, caller, pc, run, file, graph, bnode, bmem, visited, stack,
          frames, seed, entered, topological_order, eidx, prev, indent_vars>>

\* ------------------------------------------------------------- shapes_dict
shapes_dict == service_json.shapes

ShapeKeys == {shapes_dict[i].name : i \in 1..Len(shapes_dict)}

\* shapes_dict[name]
Shape(name) == shapes_dict[CHOOSE i \in 1..Len(shapes_dict) : shapes_dict[i].name = name]

\* ------------------------------------------------------------- graph
\* The value of a graph key: None, or a list of names.
None == [isNone |-> TRUE, list |-> <<>>]

List(l) == [isNone |-> FALSE, list |-> l]

GraphKeys(g) == {g[i].key : i \in 1..Len(g)}

\* graph.get(node): None when node is no key of the graph.
GraphGet(g, node) ==
    IF node \in GraphKeys(g)
    THEN g[CHOOSE i \in 1..Len(g) : g[i].key = node].val
    ELSE None

\* graph[node] = val: a new key goes last, an old key keeps its place.
GraphPut(g, node, val) ==
    IF node \in GraphKeys(g)
    THEN [i \in 1..Len(g) |-> IF g[i].key = node THEN [key |-> node, val |-> val] ELSE g[i]]
    ELSE Append(g, [key |-> node, val |-> val])

\* build_graph without the unwrapping: every member contributes the name it
\* declares.
MemberDepsNoUnwrap(member_attributes) == <<member_attributes.shape>>

\* What one member appends to node_deps, given the shape it references.
MemberDeps(member_attributes) ==
    LET member_shape == Shape(member_attributes.shape)
    IN  IF member_shape.type = "list"
        THEN <<member_shape.member.shape>>
        ELSE IF member_shape.type = "map"
        THEN <<member_shape.key.shape, member_shape.value.shape>>
        ELSE <<member_attributes.shape>>

\* ------------------------------------------------------------- build_graph
\* graph = {}; shapes_dict = self.service_json["shapes"]
CallBuildGraph ==
    /\ pc = "topological_sort"
    /\ graph' = <<>>
    /\ bnode' = 1
    /\ bmem' = 1
    /\ pc' = "build_graph"
    /\ UNCHANGED <<indent_vars, service_json, caller, run, file, visited, stack, frames, seed,
                   entered, topological_order, eidx, prev>>

\* A shape without "members": graph[node] = None.
BuildLeaf ==
    /\ pc = "build_graph"
    /\ bnode <= Len(shapes_dict)
    /\ "members" \notin DOMAIN shapes_dict[bnode]
    /\ graph' = GraphPut(graph, shapes_dict[bnode].name, None)
    /\ bnode' = bnode + 1
    /\ UNCHANGED <<indent_vars, service_json, caller, pc, run, file, bmem, visited, stack, frames,
                   seed, entered, topological_order, eidx, prev>>

\* build_graph keeping node_deps free of repetitions: a name is appended only
\* when the list does not hold it yet.
BuildMemberDedup ==
    /\ pc = "build_graph"
    /\ bnode <= Len(shapes_dict)
    /\ "members" \in DOMAIN shapes_dict[bnode]
    /\ bmem <= Len(shapes_dict[bnode].members)
    /\ LET node == shapes_dict[bnode].name
           member_attributes == shapes_dict[bnode].members[bmem]
       IN  IF member_attributes.shape \in ShapeKeys
           THEN LET node_deps == IF node \in GraphKeys(graph)
                                 THEN GraphGet(graph, node).list
                                 ELSE <<>>
                    fresh == SelectSeq(MemberDeps(member_attributes),
                                       LAMBDA d : \A k \in 1..Len(node_deps) : node_deps[k] # d)
                IN  graph' = GraphPut(graph, node, List(node_deps \o fresh))
           ELSE graph' = graph
    /\ bmem' = bmem + 1
    /\ UNCHANGED <<indent_vars, service_json, caller, pc, run, file, bnode, visited, stack, frames,
                   seed, entered, topological_order, eidx, prev>>

\* One member of a shape with "members": its contribution is appended to the
\* node's list when the shape it names is a key of shapes_dict, and the
\* member is passed over otherwise.
BuildMember ==
    /\ pc = "build_graph"
    /\ bnode <= Len(shapes_dict)
    /\ "members" \in DOMAIN shapes_dict[bnode]
    /\ bmem <= Len(shapes_dict[bnode].members)
    /\ LET node == shapes_dict[bnode].name
           member_attributes == shapes_dict[bnode].members[bmem]
       IN  IF member_attributes.shape \in ShapeKeys
           THEN LET node_deps == IF node \in GraphKeys(graph)
                                 THEN GraphGet(graph, node).list
                                 ELSE <<>>
                IN  graph' = GraphPut(graph, node,
                                      List(node_deps \o MemberDeps(member_attributes)))
           ELSE graph' = graph
    /\ bmem' = bmem + 1
    /\ UNCHANGED <<indent_vars, service_json, caller, pc, run, file, bnode, visited, stack, frames,
                   seed, entered, topological_order, eidx, prev>>

\* The members of a shape are exhausted: the next shape.
BuildNextNode ==
    /\ pc = "build_graph"
    /\ bnode <= Len(shapes_dict)
    /\ "members" \in DOMAIN shapes_dict[bnode]
    /\ bmem > Len(shapes_dict[bnode].members)
    /\ bnode' = bnode + 1
    /\ bmem' = 1
    /\ UNCHANGED <<indent_vars, service_json, caller, pc, run, file, graph, visited, stack, frames,
                   seed, entered, topological_order, eidx, prev>>

\* return graph; back in topological_sort: visited = set(); stack = []
BuildReturn ==
    /\ pc = "build_graph"
    /\ bnode > Len(shapes_dict)
    /\ visited' = {}
    /\ stack' = <<>>
    /\ frames' = <<>>
    /\ seed' = 1
    /\ entered' = [n \in PoolNames |-> 0]
    /\ pc' = "dfs"
    /\ UNCHANGED <<indent_vars, service_json, caller, run, file, graph, bnode, bmem,
                   topological_order, eidx, prev>>

\* ------------------------------------------------------------- topological_sort
\* `for node in graph: if node not in visited: dfs(node)`, a node not yet
\* visited: dfs is entered and marks it.
SortSeedCall ==
    /\ pc = "dfs"
    /\ frames = <<>>
    /\ seed <= Len(graph)
    /\ graph[seed].key \notin visited
    /\ visited' = visited \cup {graph[seed].key}
    /\ entered' = [entered EXCEPT ![graph[seed].key] = @ + 1]
    /\ frames' = <<[node |-> graph[seed].key, i |-> 1]>>
    /\ seed' = seed + 1
    /\ UNCHANGED <<indent_vars, service_json, caller, pc, run, file, graph, bnode, bmem, stack,
                   topological_order, eidx, prev>>

\* `for node in graph`, a node already visited.
SortSeedSkip ==
    /\ pc = "dfs"
    /\ frames = <<>>
    /\ seed <= Len(graph)
    /\ graph[seed].key \in visited
    /\ seed' = seed + 1
    /\ UNCHANGED <<indent_vars, service_json, caller, pc, run, file, graph, bnode, bmem, visited,
                   stack, frames, entered, topological_order, eidx, prev>>

\* The neighbors the innermost activation of dfs has still to look at.
Top == frames[Len(frames)]

TopDeps == GraphGet(graph, Top.node)

TopHasNeighbor == ~TopDeps.isNone /\ Top.i <= Len(TopDeps.list)

\* dfs without `if neighbor not in visited`: every neighbor is entered.
DfsCallUnguarded ==
    /\ pc = "dfs"
    /\ frames # <<>>
    /\ TopHasNeighbor
    /\ LET neighbor == TopDeps.list[Top.i]
       IN  /\ visited' = visited \cup {neighbor}
           /\ entered' = [entered EXCEPT ![neighbor] = @ + 1]
           /\ frames' = Append([frames EXCEPT ![Len(frames)].i = @ + 1],
                               [node |-> neighbor, i |-> 1])
    /\ UNCHANGED <<indent_vars, service_json, caller, pc, run, file, graph, bnode, bmem, stack,
                   seed, topological_order, eidx, prev>>

\* `for neighbor in graph.get(node, [])`, a neighbor not yet visited:
\* dfs(neighbor) is entered and marks it.
DfsCall ==
    /\ pc = "dfs"
    /\ frames # <<>>
    /\ TopHasNeighbor
    /\ LET neighbor == TopDeps.list[Top.i]
       IN  /\ neighbor \notin visited
           /\ visited' = visited \cup {neighbor}
           /\ entered' = [entered EXCEPT ![neighbor] = @ + 1]
           /\ frames' = Append([frames EXCEPT ![Len(frames)].i = @ + 1],
                               [node |-> neighbor, i |-> 1])
    /\ UNCHANGED <<indent_vars, service_json, caller, pc, run, file, graph, bnode, bmem, stack,
                   seed, topological_order, eidx, prev>>

\* `for neighbor in graph.get(node, [])`, a neighbor already visited.
DfsSkip ==
    /\ pc = "dfs"
    /\ frames # <<>>
    /\ TopHasNeighbor
    /\ TopDeps.list[Top.i] \in visited
    /\ frames' = [frames EXCEPT ![Len(frames)].i = @ + 1]
    /\ UNCHANGED <<indent_vars, service_json, caller, pc, run, file, graph, bnode, bmem, visited,
                   stack, seed, entered, topological_order, eidx, prev>>

\* stack.append(node): the activation of dfs ends.
DfsReturn ==
    /\ pc = "dfs"
    /\ frames # <<>>
    /\ ~TopHasNeighbor
    /\ stack' = Append(stack, Top.node)
    /\ frames' = SubSeq(frames, 1, Len(frames) - 1)
    /\ UNCHANGED <<indent_vars, service_json, caller, pc, run, file, graph, bnode, bmem, visited,
                   seed, entered, topological_order, eidx, prev>>

Reverse(s) == [i \in 1..Len(s) |-> s[Len(s) + 1 - i]]

\* topological_sort with `return stack[::-1]`.
SortReturnReversed ==
    /\ pc = "dfs"
    /\ frames = <<>>
    /\ seed > Len(graph)
    /\ topological_order' = Reverse(stack)
    /\ eidx' = 1
    /\ pc' = IF caller = "generate_shapes" THEN "emit" ELSE "returned"
    /\ UNCHANGED <<indent_vars, service_json, caller, run, file, graph, bnode, bmem, visited, stack,
                   frames, seed, entered, prev>>

\* return stack: to generate_shapes, or to the caller of topological_sort.
SortReturn ==
    /\ pc = "dfs"
    /\ frames = <<>>
    /\ seed > Len(graph)
    /\ topological_order' = stack
    /\ eidx' = 1
    /\ pc' = IF caller = "generate_shapes" THEN "emit" ELSE "returned"
    /\ UNCHANGED <<indent_vars, service_json, caller, run, file, graph, bnode, bmem, visited, stack,
                   frames, seed, entered, prev>>

\* ------------------------------------------------------------- generate_shapes
\* One write to the output file.
Chunk(kind, shape) == [kind |-> kind, shape |-> shape]

\* generate_data_class_for_shape(shape): the class text of a shape.
generate_data_class_for_shape(shape) == Chunk("class", shape)

\* The filter's list without the output shapes.
operation_input_shapes_only ==
    LET operations == service_json.operations
    IN  {operations[i].input.shape :
            i \in {j \in 1..Len(operations) : "input" \in DOMAIN operations[j]}}

\* The names operation_input_output_shapes collects from the operations table.
operation_input_output_shapes ==
    LET operations == service_json.operations
    IN  {operations[i].input.shape :
            i \in {j \in 1..Len(operations) : "input" \in DOMAIN operations[j]}}
        \cup
        {operations[i].output.shape :
            i \in {j \in 1..Len(operations) : "output" \in DOMAIN operations[j]}}

\* _filter_input_output_shapes with its two results exchanged.
filter_inverted(shape) == shape \in operation_input_output_shapes

\* _filter_input_output_shapes(shape): TRUE when the shape is to be generated.
filter_input_output_shapes(shape) == shape \notin operation_input_output_shapes

\* generate_shapes with open(output_file, "a"): the file is not truncated.
OpenFileAppend ==
    /\ pc = "generate_shapes"
    /\ pc' = "license"
    /\ UNCHANGED <<indent_vars, service_json, caller, run, file, graph, bnode, bmem, visited, stack,
                   frames, seed, entered, topological_order, eidx, prev>>

\* with open(output_file, "w") as file
OpenFile ==
    /\ pc = "generate_shapes"
    /\ file' = <<>>
    /\ pc' = "license"
    /\ UNCHANGED <<indent_vars, service_json, caller, run, graph, bnode, bmem, visited, stack,
                   frames, seed, entered, topological_order, eidx, prev>>

WriteLicense ==
    /\ pc = "license"
    /\ file' = Append(file, Chunk("license", ""))
    /\ pc' = "imports"
    /\ UNCHANGED <<indent_vars, service_json, caller, run, graph, bnode, bmem, visited, stack,
                   frames, seed, entered, topological_order, eidx, prev>>

WriteImports ==
    /\ pc = "imports"
    /\ file' = Append(file, Chunk("imports", ""))
    /\ pc' = "base_class"
    /\ UNCHANGED <<indent_vars, service_json, caller, run, graph, bnode, bmem, visited, stack,
                   frames, seed, entered, topological_order, eidx, prev>>

\* file.write(base_class); file.write("\n\n")
WriteBaseClass ==
    /\ pc = "base_class"
    /\ file' = file \o <<Chunk("base_class", ""), Chunk("newlines", "")>>
    /\ pc' = "unassigned"
    /\ UNCHANGED <<indent_vars, service_json, caller, run, graph, bnode, bmem, visited, stack,
                   frames, seed, entered, topological_order, eidx, prev>>

\* file.write(wrapped_class_definition); file.write("\n")
WriteUnassigned ==
    /\ pc = "unassigned"
    /\ file' = file \o <<Chunk("Unassigned", ""), Chunk("newline", "")>>
    /\ pc' = "topological_sort"
    /\ UNCHANGED <<indent_vars, service_json, caller, run, graph, bnode, bmem, visited, stack,
                   frames, seed, entered, topological_order, eidx, prev>>

\* `for shape in topological_order`, a shape the filter rejects.
EmitFiltered ==
    /\ pc = "emit"
    /\ eidx <= Len(topological_order)
    /\ ~filter_input_output_shapes(topological_order[eidx])
    /\ eidx' = eidx + 1
    /\ UNCHANGED <<indent_vars, service_json, caller, pc, run, file, graph, bnode, bmem, visited,
                   stack, frames, seed, entered, topological_order, prev>>

\* self.service_json['shapes'][shape] of a name that is no key of shapes:
\* KeyError leaves the with block, which closes the file as it is.
EmitKeyError ==
    /\ pc = "emit"
    /\ eidx <= Len(topological_order)
    /\ filter_input_output_shapes(topological_order[eidx])
    /\ topological_order[eidx] \notin ShapeKeys
    /\ pc' = "failed"
    /\ UNCHANGED <<indent_vars, service_json, caller, run, file, graph, bnode, bmem, visited, stack,
                   frames, seed, entered, topological_order, eidx, prev>>

\* A shape that passes the filter and is no structure.
EmitNotStructure ==
    /\ pc = "emit"
    /\ eidx <= Len(topological_order)
    /\ filter_input_output_shapes(topological_order[eidx])
    /\ topological_order[eidx] \in ShapeKeys
    /\ Shape(topological_order[eidx]).type # "structure"
    /\ eidx' = eidx + 1
    /\ UNCHANGED <<indent_vars, service_json, caller, pc, run, file, graph, bnode, bmem, visited,
                   stack, frames, seed, entered, topological_order, prev>>

\* generate_shapes putting each class before the classes already written.
EmitClassFirst ==
    /\ pc = "emit"
    /\ eidx <= Len(topological_order)
    /\ filter_input_output_shapes(topological_order[eidx])
    /\ topological_order[eidx] \in ShapeKeys
    /\ Shape(topological_order[eidx]).type = "structure"
    /\ file' = SubSeq(file, 1, 6)
                \o <<Chunk("class", topological_order[eidx])>>
                \o SubSeq(file, 7, Len(file))
    /\ eidx' = eidx + 1
    /\ UNCHANGED <<indent_vars, service_json, caller, pc, run, graph, bnode, bmem, visited, stack,
                   frames, seed, entered, topological_order, prev>>

\* A structure that passes the filter: file.write(shape_class).
EmitClass ==
    /\ pc = "emit"
    /\ eidx <= Len(topological_order)
    /\ filter_input_output_shapes(topological_order[eidx])
    /\ topological_order[eidx] \in ShapeKeys
    /\ Shape(topological_order[eidx]).type = "structure"
    /\ file' = Append(file, generate_data_class_for_shape(topological_order[eidx]))
    /\ eidx' = eidx + 1
    /\ UNCHANGED <<indent_vars, service_json, caller, pc, run, graph, bnode, bmem, visited, stack,
                   frames, seed, entered, topological_order, prev>>

\* The loop ends and with it generate_shapes.
EmitDone ==
    /\ pc = "emit"
    /\ eidx > Len(topological_order)
    /\ pc' = "done"
    /\ UNCHANGED <<indent_vars, service_json, caller, run, file, graph, bnode, bmem, visited, stack,
                   frames, seed, entered, topological_order, eidx, prev>>

\* ------------------------------------------------------------- calls
Ended == pc \in {"done", "failed", "returned"}

\* The same method is called once more on the same object: whatever the
\* last call left is still there.
CallAgain ==
    /\ Ended
    /\ run < MaxRuns
    /\ prev' = [pc |-> pc, graph |-> graph, topological_order |-> topological_order,
                file |-> file]
    /\ run' = run + 1
    /\ pc' = caller
    /\ UNCHANGED <<indent_vars, service_json, caller, file, graph, bnode, bmem, visited, stack,
                   frames, seed, entered, topological_order, eidx>>

NoCall == [pc |-> "none", graph |-> <<>>, topological_order |-> <<>>, file |-> <<>>]

InitLocals ==
    /\ run = 1
    /\ file = <<>>
    /\ graph = <<>>
    /\ bnode = 1
    /\ bmem = 1
    /\ visited = {}
    /\ stack = <<>>
    /\ frames = <<>>
    /\ seed = 1
    /\ entered = [n \in PoolNames |-> 0]
    /\ topological_order = <<>>
    /\ eidx = 1
    /\ prev = NoCall

\* No call of add_indent is under way.
InitIndentLocals ==
    /\ text = <<>>
    /\ num_spaces = 4
    /\ lines = <<>>
    /\ indented_text = <<>>

\* codegen = ShapesCodeGen(service_json=data); codegen.generate_shapes()
Init ==
    /\ service_json \in [shapes : UNION {ShapeMaps(k) : k \in 0..MaxPipelineShapes},
                         operations : OperationTables]
    /\ caller = "generate_shapes"
    /\ pc = "generate_shapes"
    /\ InitLocals
    /\ InitIndentLocals

\* codegen = ShapesCodeGen(service_json=data); codegen.topological_sort()
InitSort ==
    /\ service_json \in [shapes : UNION {ShapeMaps(k) : k \in 0..NumNames},
                         operations : {<<>>}]
    /\ caller = "topological_sort"
    /\ pc = "topological_sort"
    /\ InitLocals
    /\ InitIndentLocals

NextSort ==
    \/ CallBuildGraph
    \/ BuildLeaf
    \/ BuildMember
    \/ BuildNextNode
    \/ BuildReturn
    \/ SortSeedCall
    \/ SortSeedSkip
    \/ DfsCall
    \/ DfsSkip
    \/ DfsReturn
    \/ SortReturn

Next ==
    \/ OpenFile
    \/ WriteLicense
    \/ WriteImports
    \/ WriteBaseClass
    \/ WriteUnassigned
    \/ CallBuildGraph
    \/ BuildLeaf
    \/ BuildMember
    \/ BuildNextNode
    \/ BuildReturn
    \/ SortSeedCall
    \/ SortSeedSkip
    \/ DfsCall
    \/ DfsSkip
    \/ DfsReturn
    \/ SortReturn
    \/ EmitFiltered
    \/ EmitKeyError
    \/ EmitNotStructure
    \/ EmitClass
    \/ EmitDone
    \/ CallAgain

Spec == Init /\ [][Next]_vars

SpecSort == InitSort /\ [][NextSort]_vars

\* A call runs to its end: the interpreter takes the next step of the one
\* thread whenever there is one to take.
SpecSortFair == SpecSort /\ WF_vars(NextSort)

\* ------------------------------------------------------------- nested wrappers
\* Wrappers (lists, maps) between a structure's member and the structure
\* they finally hold.
NestingDepth == 2

NestedOrder == SubSeq(NamePool, 1, NestingDepth + 2)

NestedNames == Range(NestedOrder)

\* Which name is the outer structure (1), which the wrappers from the
\* outermost to the innermost (2..NestingDepth + 1), which the inner
\* structure (NestingDepth + 2).
NestedRoles ==
    {r \in [1..(NestingDepth + 2) -> NestedNames] :
        \A i, j \in 1..(NestingDepth + 2) : r[i] = r[j] => i = j}

\* A list of `inner`, or a map with `inner` as its key or its value.
Wrappers(n, inner) ==
    {[name |-> n, type |-> "list", member |-> [shape |-> inner]]}
        \cup {[name |-> n, type |-> "map", key |-> [shape |-> k], value |-> [shape |-> inner]] :
                k \in NestedNames}
        \cup {[name |-> n, type |-> "map", key |-> [shape |-> inner], value |-> [shape |-> k]] :
                k \in NestedNames}

\* The definitions of the shape declared at position p under roles r.
NestedDefs(r, p) ==
    LET i == CHOOSE j \in 1..(NestingDepth + 2) : r[j] = NestedOrder[p]
    IN  IF i = 1
        THEN {[name |-> r[1], type |-> "structure", members |-> <<[shape |-> r[2]]>>]}
        ELSE IF i = NestingDepth + 2
        THEN {[name |-> r[i], type |-> "structure"]}
        ELSE Wrappers(r[i], r[i + 1])

RECURSIVE NestedShapeMaps(_, _)
NestedShapeMaps(r, k) ==
    IF k = 0
    THEN {<<>>}
    ELSE {Append(s, d) : s \in NestedShapeMaps(r, k - 1), d \in NestedDefs(r, k)}

\* codegen.topological_sort() over a schema in which a structure's member is
\* a wrapper of wrappers of a structure, the shapes declared in any order.
InitNested ==
    /\ service_json \in
        [shapes : UNION {NestedShapeMaps(r, NestingDepth + 2) : r \in NestedRoles},
         operations : {<<>>}]
    /\ caller = "topological_sort"
    /\ pc = "topological_sort"
    /\ InitLocals
    /\ InitIndentLocals

SpecNested == InitNested /\ [][NextSort]_vars

\* ------------------------------------------------------------- add_indent
\* Longest text handed to add_indent.
MaxTextLen == 4
\* Largest num_spaces handed to add_indent (its default, and what
\* generate_data_class_for_shape and generate_base_class pass).
MaxIndent == 4

\* The characters of a text: a space, a newline, any other character.
Characters == {" ", "\n", "a"}

Texts == SeqsUpTo(Characters, MaxTextLen)

\* ' ' * n
Spaces(n) == [i \in 1..n |-> " "]

\* text.split('\n'): the pieces between the newlines, one more than there
\* are newlines.
RECURSIVE Split(_)
Split(t) ==
    IF \A i \in 1..Len(t) : t[i] # "\n"
    THEN <<t>>
    ELSE LET k == CHOOSE i \in 1..Len(t) : t[i] = "\n" /\ \A j \in 1..(i - 1) : t[j] # "\n"
         IN  <<SubSeq(t, 1, k - 1)>> \o Split(SubSeq(t, k + 1, Len(t)))

\* '\n'.join(ls)
RECURSIVE Join(_)
Join(ls) ==
    IF Len(ls) = 0 THEN <<>>
    ELSE IF Len(ls) = 1 THEN ls[1]
    ELSE ls[1] \o <<"\n">> \o Join(Tail(ls))

\* t.rstrip(' '): t without the spaces at its end.
RECURSIVE RStrip(_)
RStrip(t) ==
    IF Len(t) > 0 /\ t[Len(t)] = " " THEN RStrip(SubSeq(t, 1, Len(t) - 1)) ELSE t

\* indent = ' ' * num_spaces; lines = text.split('\n')
IndentSplit ==
    /\ pc = "add_indent"
    /\ lines' = Split(text)
    /\ pc' = "join"
    /\ UNCHANGED <<service_json, caller, run, file, graph, bnode, bmem, visited, stack,
                   frames, seed, entered, topological_order, eidx, prev,
                   text, num_spaces, indented_text>>

\* indented_text = '\n'.join(indent + line for line in lines)
IndentJoin ==
    /\ pc = "join"
    /\ indented_text' = Join([i \in 1..Len(lines) |-> Spaces(num_spaces) \o lines[i]])
    /\ pc' = "rstrip"
    /\ UNCHANGED <<service_json, caller, run, file, graph, bnode, bmem, visited, stack,
                   frames, seed, entered, topological_order, eidx, prev,
                   text, num_spaces, lines>>

\* return indented_text.rstrip(' ')
IndentReturn ==
    /\ pc = "rstrip"
    /\ indented_text' = RStrip(indented_text)
    /\ pc' = "indented"
    /\ UNCHANGED <<service_json, caller, run, file, graph, bnode, bmem, visited, stack,
                   frames, seed, entered, topological_order, eidx, prev,
                   text, num_spaces, lines>>

\* add_indent(text, num_spaces)
InitIndent ==
    /\ service_json = [shapes |-> <<>>, operations |-> <<>>]
    /\ caller = "add_indent"
    /\ pc = "add_indent"
    /\ InitLocals
    /\ text \in Texts
    /\ num_spaces \in 0..MaxIndent
    /\ lines = <<>>
    /\ indented_text = <<>>

NextIndent ==
    \/ IndentSplit
    \/ IndentJoin
    \/ IndentReturn

SpecIndent == InitIndent /\ [][NextIndent]_vars

\* ------------------------------------------------------------- properties
\* topological_sort has returned in the current call: graph is the graph it
\* built and topological_order the sequence it returned.
SortReturned == pc \in {"returned", "emit", "done", "failed"}

NoDuplicates(s) == \A i, j \in 1..Len(s) : s[i] = s[j] => i = j

\* The index of the first occurrence of x in s.
IndexOf(s, x) == CHOOSE i \in 1..Len(s) : s[i] = x /\ \A j \in 1..(i - 1) : s[j] # x

\* The names a graph lists as the dependencies of n.
DepsOf(g, n) == Range(GraphGet(g, n).list)

RECURSIVE ReachIn(_, _, _)
ReachIn(g, S, k) ==
    IF k = 0 THEN S ELSE ReachIn(g, S \cup UNION {DepsOf(g, m) : m \in S}, k - 1)

\* No name is reached from itself along the dependency lists of g.
Acyclic(g) == \A n \in Names : n \notin ReachIn(g, DepsOf(g, n), NumNames)

\* C1: when the graph build_graph returned has no cycle, every name in a
\* shape's dependency list stands in the sequence topological_sort returned
\* at a strictly earlier index than the shape.
C1_DependenciesFirst ==
    (SortReturned /\ Acyclic(graph)) =>
        \A i \in 1..Len(graph) :
            \A d \in Range(graph[i].val.list) :
                /\ d \in Range(topological_order)
                /\ graph[i].key \in Range(topological_order)
                /\ IndexOf(topological_order, d) < IndexOf(topological_order, graph[i].key)

\* C1 witness: an acyclic graph in which a shape declared first depends on a
\* shape declared later that has dependencies of its own, has been sorted.
C1_Witness ==
    /\ SortReturned
    /\ Acyclic(graph)
    /\ \E i, j \in 1..Len(graph) :
        /\ i < j
        /\ graph[j].key \in Range(graph[i].val.list)
        /\ graph[j].val.list # <<>>

\* C2: the sequence topological_sort returns has no duplicates and holds
\* every key of the schema's shapes mapping.
C2_EveryShapeOnce ==
    SortReturned =>
        /\ NoDuplicates(topological_order)
        /\ ShapeKeys \subseteq Range(topological_order)

\* The list a graph holds for a node, empty while the node is no key of it.
NodeList(g, node) == IF node \in GraphKeys(g) THEN GraphGet(g, node).list ELSE <<>>

\* build_graph passes from one member of a shape to the next.
BuildMemberStep == pc = "build_graph" /\ bnode' = bnode /\ bmem' = bmem + 1

\* The names that step added to the list of the shape.
Appended ==
    LET node == shapes_dict[bnode].name
        old == NodeList(graph, node)
        new == NodeList(graph', node)
    IN  SubSeq(new, Len(old) + 1, Len(new))

\* The shape name the member at hand declares.
MemberRef == shapes_dict[bnode].members[bmem].shape

\* C3 as stated: a member that references a list contributes the list's
\* element name and never the list's own name, a member that references a
\* map contributes the map's key name and value name and never the map's own
\* name, a member that references any other shape contributes that name.
C3_Unwrapping ==
    [][(BuildMemberStep /\ MemberRef \in ShapeKeys) =>
        LET r == Shape(MemberRef)
        IN  CASE r.type = "list" ->
                    Appended = <<r.member.shape>> /\ MemberRef \notin Range(Appended)
              [] r.type = "map" ->
                    Appended = <<r.key.shape, r.value.shape>> /\ MemberRef \notin Range(Appended)
              [] OTHER -> Appended = <<MemberRef>>]_vars

\* C3 as amended: the contribution of a list member is the element name, that
\* of a map member the key name then the value name, and the wrapper's own
\* name is contributed only where the wrapper names itself as its element,
\* key or value.
C3_UnwrappingAmended ==
    [][(BuildMemberStep /\ MemberRef \in ShapeKeys) =>
        LET r == Shape(MemberRef)
        IN  CASE r.type = "list" ->
                    /\ Appended = <<r.member.shape>>
                    /\ r.member.shape # MemberRef => MemberRef \notin Range(Appended)
              [] r.type = "map" ->
                    /\ Appended = <<r.key.shape, r.value.shape>>
                    /\ MemberRef \notin {r.key.shape, r.value.shape}
                            => MemberRef \notin Range(Appended)
              [] OTHER -> Appended = <<MemberRef>>]_vars

\* C3 witness: build_graph has processed a structure whose first member
\* references a list and whose second member references a map, neither of
\* which names itself.
C3_Witness ==
    /\ pc = "build_graph"
    /\ bnode <= Len(shapes_dict)
    /\ "members" \in DOMAIN shapes_dict[bnode]
    /\ bmem = 3
    /\ LET m == shapes_dict[bnode].members
       IN  /\ {m[1].shape, m[2].shape} \subseteq ShapeKeys
           /\ Shape(m[1].shape).type = "list"
           /\ Shape(m[1].shape).member.shape # m[1].shape
           /\ Shape(m[2].shape).type = "map"
           /\ m[2].shape \notin {Shape(m[2].shape).key.shape, Shape(m[2].shape).value.shape}
           /\ NodeList(graph, shapes_dict[bnode].name) =
                <<Shape(m[1].shape).member.shape,
                  Shape(m[2].shape).key.shape, Shape(m[2].shape).value.shape>>

\* The names of the shapes mapping entered as the input or the output of an
\* entry of the operations table.
OperationShapes ==
    {n \in Names :
        \E i \in 1..Len(service_json.operations) :
            LET op == service_json.operations[i]
            IN  \/ "input" \in DOMAIN op /\ op.input.shape = n
                \/ "output" \in DOMAIN op /\ op.output.shape = n}

\* The shapes whose class the file holds, in the order of the writes.
Classes(f) == SelectSeq(f, LAMBDA c : c.kind = "class")

ClassNames(f) == {c.shape : c \in Range(Classes(f))}

\* C4: no class is ever written for a shape that is the input or the output
\* of an operation.
C4_NeverEmitOperationShape == ClassNames(file) \cap OperationShapes = {}

\* C4 witness: a run has completed in which a structure that is an operation's
\* output came up in the topological order, and a class was written.
C4_Witness ==
    /\ pc = "done"
    /\ Classes(file) # <<>>
    /\ \E i \in 1..Len(service_json.operations) :
        LET op == service_json.operations[i]
        IN  /\ "output" \in DOMAIN op
            /\ op.output.shape \in Range(topological_order) \cap ShapeKeys
            /\ Shape(op.output.shape).type = "structure"

\* C5: in a completed run every structure of the shapes mapping that is
\* neither input nor output of an operation has exactly one class in the file.
C5_EveryStructureEmittedOnce ==
    pc = "done" =>
        \A n \in ShapeKeys \ OperationShapes :
            Shape(n).type = "structure" =>
                Len(SelectSeq(file, LAMBDA c : c.kind = "class" /\ c.shape = n)) = 1

\* Some member of a structure declares a shape name that is no key of shapes.
HasAbsentMemberShape ==
    \E i \in 1..Len(shapes_dict) :
        /\ "members" \in DOMAIN shapes_dict[i]
        /\ \E k \in 1..Len(shapes_dict[i].members) :
            shapes_dict[i].members[k].shape \notin ShapeKeys

\* C6: build_graph never returns a graph for a schema in which a member
\* declares a shape name absent from shapes.
C6_AbsentMemberShapeFails == HasAbsentMemberShape => ~(pc = "dfs" \/ SortReturned)

\* C7: when generate_shapes ends in an error, nothing has been written to the
\* output file.
C7_NoOutputOnFailure == pc = "failed" => file = <<>>

\* C8: a second call on the same object over the same schema ends as the
\* first did, with the same graph, the same topological order and the same
\* sequence of writes in the file.
C8_SecondRunSame ==
    (run > 1 /\ Ended) =>
        /\ pc = prev.pc
        /\ graph = prev.graph
        /\ topological_order = prev.topological_order
        /\ file = prev.file

\* C8 witness: a second run has completed with two classes in the file, made
\* from a graph with a dependency in it.
C8_Witness ==
    /\ run = 2
    /\ pc = "done"
    /\ Len(Classes(file)) >= 2
    /\ \E i \in 1..Len(graph) : graph[i].val.list # <<>>

\* The writes that precede the classes.
Header ==
    <<Chunk("license", ""), Chunk("imports", ""), Chunk("base_class", ""),
      Chunk("newlines", ""), Chunk("Unassigned", ""), Chunk("newline", "")>>

\* C9: a completed run has written the license, the imports, the base class
\* and the Unassigned type, once each and in this order, and then only
\* classes, which follow each other as their shapes do in the sequence
\* topological_sort returned.
C9_WriteOrder ==
    pc = "done" =>
        /\ Len(file) >= Len(Header)
        /\ SubSeq(file, 1, Len(Header)) = Header
        /\ Len(SelectSeq(file, LAMBDA c : c.kind = "Unassigned")) = 1
        /\ \A i \in (Len(Header) + 1)..Len(file) :
            /\ file[i].kind = "class"
            /\ file[i].shape \in Range(topological_order)
        /\ \A i, j \in (Len(Header) + 1)..Len(file) :
            i < j => IndexOf(topological_order, file[i].shape)
                        < IndexOf(topological_order, file[j].shape)

\* C9 witness: a completed run wrote the class of the shape declared second
\* before the class of the shape declared first.
C9_Witness ==
    /\ pc = "done"
    /\ Len(shapes_dict) >= 2
    /\ Len(Classes(file)) = 2
    /\ Classes(file)[1].shape = shapes_dict[2].name
    /\ Classes(file)[2].shape = shapes_dict[1].name

\* The steps topological_sort has at most still to take before it returns:
\* the seeds not yet looked at, the neighbors each activation of dfs has not
\* yet looked at and its append, and the same for every name not yet visited.
Variant ==
    LET SumOver[S \in SUBSET (1..Len(frames))] ==
            IF S = {} THEN 0
            ELSE LET k == CHOOSE x \in S : TRUE
                 IN  (Len(GraphGet(graph, frames[k].node).list) - frames[k].i + 2)
                        + SumOver[S \ {k}]
        SumNames[S \in SUBSET Names] ==
            IF S = {} THEN 0
            ELSE LET n == CHOOSE x \in S : TRUE
                 IN  (Len(GraphGet(graph, n).list) + 1) + SumNames[S \ {n}]
    IN  (Len(graph) + 1 - seed) + SumOver[1..Len(frames)] + SumNames[Names \ visited]

\* C10: topological_sort terminates on every graph, cyclic ones included:
\* dfs is entered at most once per name, every step of the traversal takes
\* one from a natural number, and the call returns.
C10_SortTerminates ==
    /\ [][\A n \in Names : entered'[n] <= 1]_vars
    /\ [][(pc = "dfs" /\ pc' = "dfs") => (Variant' >= 0 /\ Variant' < Variant)]_vars
    /\ <>(pc = "returned")

\* C10 witness: topological_sort has returned on a graph in which a structure
\* depends on itself and on a second structure that depends on it in turn.
C10_Witness ==
    /\ pc = "returned"
    /\ \E a, b \in GraphKeys(graph) :
        /\ a # b
        /\ a \in DepsOf(graph, a)
        /\ b \in DepsOf(graph, a)
        /\ a \in DepsOf(graph, b)

\* The names one member is to contribute: the element of a list, the key and
\* then the value of a map, the declared name of any other declared shape; a
\* member whose shape is not declared has no shape to take a name from.
Contribution(ref) ==
    IF ref \notin ShapeKeys THEN <<>>
    ELSE CASE Shape(ref).type = "list" -> <<Shape(ref).member.shape>>
           [] Shape(ref).type = "map" -> <<Shape(ref).key.shape, Shape(ref).value.shape>>
           [] OTHER -> <<ref>>

\* The contributions of the first k members, one after the other.
RECURSIVE Concatenation(_, _)
Concatenation(members, k) ==
    IF k = 0 THEN <<>>
    ELSE Concatenation(members, k - 1) \o Contribution(members[k].shape)

\* build_graph has returned its graph in the current call.
GraphReturned == pc = "dfs" \/ SortReturned

RecognizedTypes ==
    {"structure", "list", "map",
     "string", "integer", "long", "double", "float", "boolean", "timestamp", "blob"}

HasUnsupportedKind ==
    \E i \in 1..Len(shapes_dict) : shapes_dict[i].type \notin RecognizedTypes

\* C12: a run over a schema that holds a shape of an unrecognized type does
\* not complete: it fails, and the shape is not passed over.
C12_UnsupportedKindFails == HasUnsupportedKind => pc # "done"

\* C13: add_indent(text, n) returns the lines of text, each with n spaces
\* before it and without the spaces at its end, so that no line of what it
\* returns ends with a space.
C13_EveryLineTrimmed ==
    pc = "indented" =>
        LET out == Split(indented_text)
            in == Split(text)
        IN  /\ Len(out) = Len(in)
            /\ \A i \in 1..Len(out) :
                /\ out[i] = RStrip(Spaces(num_spaces) \o in[i])
                /\ out[i] = <<>> \/ out[i][Len(out[i])] # " "

\* The place of the class of shape n among the writes to the file.
ClassIndex(f, n) == CHOOSE i \in 1..Len(f) : f[i].kind = "class" /\ f[i].shape = n

\* The structures of the shapes mapping.
Structures == {n \in ShapeKeys : Shape(n).type = "structure"}

\* C14 as stated: in a completed run over an acyclic schema, every structure
\* in the dependency list of an emitted class has a class of its own in the
\* file, before that class, also when it is the input or the output of an
\* operation.
C14_DependenciesEmittedFirst ==
    (pc = "done" /\ Acyclic(graph)) =>
        \A S \in ClassNames(file) :
            \A D \in DepsOf(graph, S) \cap Structures :
                /\ D \in ClassNames(file)
                /\ ClassIndex(file, D) < ClassIndex(file, S)

\* C14 as amended: the same for every structure in the dependency list that
\* is neither input nor output of an operation.
C14_EligibleDependenciesEmittedFirst ==
    (pc = "done" /\ Acyclic(graph)) =>
        \A S \in ClassNames(file) :
            \A D \in (DepsOf(graph, S) \cap Structures) \ OperationShapes :
                /\ D \in ClassNames(file)
                /\ ClassIndex(file, D) < ClassIndex(file, S)

\* C14 witness: a run over an acyclic schema with an operation has completed
\* and has written the class of a structure declared first after the class
\* of the structure in its dependency list, declared second.
C14_Witness ==
    /\ pc = "done"
    /\ Acyclic(graph)
    /\ service_json.operations # <<>>
    /\ Len(shapes_dict) >= 2
    /\ shapes_dict[2].name \in DepsOf(graph, shapes_dict[1].name) \cap Structures
    /\ {shapes_dict[1].name, shapes_dict[2].name} \subseteq ClassNames(file)
    /\ ClassIndex(file, shapes_dict[2].name) < ClassIndex(file, shapes_dict[1].name)

\* The shape names the definition of shape n refers to.
RefsOfShape(n) ==
    IF n \notin ShapeKeys THEN {}
    ELSE LET d == Shape(n)
         IN  CASE d.type = "list" -> {d.member.shape}
               [] d.type = "map" -> {d.key.shape, d.value.shape}
               [] "members" \in DOMAIN d -> {d.members[k].shape : k \in 1..Len(d.members)}
               [] OTHER -> {}

RECURSIVE SchemaReach(_, _)
SchemaReach(S, k) ==
    IF k = 0 THEN S ELSE SchemaReach(S \cup UNION {RefsOfShape(m) : m \in S}, k - 1)

\* No shape refers to itself, directly or through other shapes.
SchemaAcyclic ==
    \A n \in ShapeKeys : n \notin SchemaReach(RefsOfShape(n), Len(shapes_dict))

WrapperShapes == {n \in ShapeKeys : Shape(n).type \in {"list", "map"}}

\* The shapes reached from the wrappers in S through wrappers alone.
RECURSIVE Unwrapped(_, _)
Unwrapped(S, k) ==
    IF k = 0 THEN S
    ELSE Unwrapped(S \cup UNION {RefsOfShape(w) : w \in S \cap WrapperShapes}, k - 1)

\* The structures a member finally holds behind two or more wrappers.
NestedStructures(ref) ==
    IF ref \notin WrapperShapes THEN {}
    ELSE Unwrapped(RefsOfShape(ref) \cap WrapperShapes, Len(shapes_dict)) \cap Structures

\* C15: for an acyclic schema, a structure that a member of S holds behind
\* a wrapper of wrappers, however deep, stands before S in the sequence
\* topological_sort returns.
C15_NestedStructureFirst ==
    (SortReturned /\ SchemaAcyclic) =>
        \A i \in 1..Len(shapes_dict) :
            ("members" \in DOMAIN shapes_dict[i]) =>
                \A k \in 1..Len(shapes_dict[i].members) :
                    \A E \in NestedStructures(shapes_dict[i].members[k].shape) :
                        /\ E \in Range(topological_order)
                        /\ shapes_dict[i].name \in Range(topological_order)
                        /\ IndexOf(topological_order, E)
                                < IndexOf(topological_order, shapes_dict[i].name)

====
